---- MODULE Spec2Model ----
(***************************************************************************)
(* Model of src/app.py: the POST /transcribe handler transcribe_audio.     *)
(* The handler is a plain `def`, so the server runs each request on its    *)
(* own worker thread; requests interleave at every file-system operation   *)
(* and every remote call.  All requests share one working directory        *)
(* "temp_processing" (line 55).  The model follows NumReq requests step by *)
(* step; the requests served beside them appear through what their steps   *)
(* do to that directory (the Other... actions).                            *)
(***************************************************************************)
EXTENDS Integers, Sequences, FiniteSets, TLC

\* ---------------------------------------------------------------- bounds
NumReq == 1            \* requests followed step by step (beside the others)
PollStep == 200        \* model time that passes between two status polls
MaxEntries == 2        \* longest list of diarized entries

\* ------------------------------------------------------ program constants
Timeout == 300         \* job.wait_until_complete(timeout=300)
StatusProviderFailure == 502
StatusEmptyOutput == 404
StatusUnexpected == 500

Req == 1..NumReq
Other == NumReq + 1    \* any request that is not followed step by step
NoOne == NumReq + 2    \* "no request": marks a file that does not exist

\* Client-supplied file names (file.filename): absent, a plain name, a name
\* that climbs out of the working directory, the name of the output folder.
Filenames == {"", "a.wav", "../b.wav", "sarvam_output"}

temp_dir == "temp_processing"
output_dir == "temp_processing/sarvam_output"

\* os.path.join(temp_dir, file.filename if file.filename else "audio.tmp"),
\* as the operating system resolves it.
TempAudioPath(f) ==
    CASE f = ""              -> "temp_processing/audio.tmp"
      [] f = "a.wav"         -> "temp_processing/a.wav"
      [] f = "../b.wav"      -> "b.wav"
      [] f = "sarvam_output" -> output_dir

\* The regular files a request can create, and those below temp_dir.
FilePaths == {"temp_processing/audio.tmp", "temp_processing/a.wav", "b.wav"}
InTempDir == {"temp_processing/audio.tmp", "temp_processing/a.wav"}

\* Names the provider gives the files download_outputs writes to output_dir
\* (every job's output carries the same name).
OutNames == {"0.json"}

\* Reasons a failed job reports.
Reasons == {"bad audio", "quota"}

\* Text values: a string is a sequence of tokens.
ItemLists == {<<>>, <<"call Bob", "send notes">>}
Absent == <<"<absent>">>
RealSummary == <<"They agreed.">>
SummaryPlaceholder == <<"Summary could not be generated.">>
NoItemsSentinel == <<"No action items were identified.">>

\* ------------------------------------------ what the provider's JSON holds
\* Strings the normalizer works on are sequences of characters.
Hello == <<"H", "e", "l", "l", "o">>
PaddedHi == <<" ", "h", "i", " ">>
Texts == {<<>>, Hello, PaddedHi}
SpeakerIds == {<<"s", "p", "k", "_", "0">>, <<"S", "P", "K", "_", "1">>}

\* An entry of diarized_transcript.entries; either key may be missing.
Entries == [speaker_id : {Absent} \cup SpeakerIds, transcript : {Absent} \cup Texts]

EntryLists == UNION {[1..n -> Entries] : n \in 0..MaxEntries}

\* The "diarized_transcript" key: missing, an object without "entries", or
\* an object with a list of entries.
Diarizations ==
    {[given |-> g, entries |-> <<>>] : g \in {"missing", "no entries"}}
        \cup {[given |-> "entries", entries |-> es] : es \in EntryLists}

\* The parsed output file handed to format_diarized_transcript.
SarvamResults == [diarized_transcript : Diarizations, transcript : {Absent} \cup Texts]

NoCall ==
    [sarvam_result |-> [diarized_transcript |-> [given |-> "missing", entries |-> <<>>],
                        transcript |-> Absent],
     returned |-> <<>>, done |-> FALSE]


Calls == {"create_job", "upload_files", "start", "is_failed", "get_status",
          "download_outputs", "chat_completions"}

VARIABLES
    pc,         \* pc[r]: the statement request r executes next
    filename,   \* filename[r]: file.filename of request r
    dirExists,  \* temp_processing (and sarvam_output below it) exists
    files,      \* files[p]: the request whose bytes are in file p, or NoOne
    outFiles,   \* outFiles[n]: the request whose job output is in output_dir/n
    job,        \* job[r]: what the provider has reported about r's job
    elapsed,    \* elapsed[r]: time since wait_until_complete began
    calls,      \* calls[r][c]: how often r invoked remote call c
    cause,      \* cause[r]: why the try block of r was left by an exception
    chosen,     \* chosen[r]: output_files[0] of request r
    answer,     \* answer[r]: what the text-generation provider answered
    pending,    \* pending[r]: the response or exception the try block left
    outcome,    \* outcome[r]: what the caller of r received
    norm        \* one call of format_diarized_transcript: argument and result

vars == <<pc, filename, dirExists, files, outFiles, job, elapsed, calls, cause,
          chosen, answer, pending, outcome, norm>>

\* ----------------------------------------------------- responses, errors
None == [kind |-> "none", status |-> 0, detail |-> <<>>, transcript |-> NoOne,
         summary |-> <<>>, action_items |-> <<>>]

\* raise HTTPException(status_code=s, detail=d)
HTTPException(s, d) == [None EXCEPT !.kind = "http", !.status = s, !.detail = d]

\* any other exception, named by its cause
Exception(d) == [None EXCEPT !.kind = "exception", !.detail = <<d>>]

\* JSONResponse(content={transcript, summary, action_items}), status 200
JSONResponse(t, s, a) ==
    [None EXCEPT !.kind = "success", !.status = 200, !.transcript = t,
                 !.summary = s, !.action_items = a]

\* lines 141-145, except Exception as e: an HTTPException is raised again,
\* anything else is wrapped in a 500
ExceptClause(e) ==
    IF e.kind = "http" THEN e
    ELSE HTTPException(StatusUnexpected, <<"An unexpected error occurred: ">> \o e.detail)

\* line 83
ProviderFailure(why) ==
    HTTPException(StatusProviderFailure, <<"Sarvam job failed: ", why>>)

\* line 92
EmptyOutput ==
    HTTPException(StatusEmptyOutput, <<"No transcript output file found from Sarvam.">>)

NoJob == [state |-> "none", reason |-> "", nout |-> 0]
NoAnswer == [kind |-> "none", summary |-> <<>>, action_items |-> <<>>]

\* No request has arrived, the working directory holds nothing.
Idle ==
    /\ pc = [r \in Req |-> "idle"]
    /\ filename = [r \in Req |-> ""]
    /\ dirExists = FALSE
    /\ files = [p \in FilePaths |-> NoOne]
    /\ outFiles = [n \in OutNames |-> NoOne]
    /\ job = [r \in Req |-> NoJob]
    /\ elapsed = [r \in Req |-> 0]
    /\ calls = [r \in Req |-> [c \in Calls |-> 0]]
    /\ cause = [r \in Req |-> ""]
    /\ chosen = [r \in Req |-> ""]
    /\ answer = [r \in Req |-> NoAnswer]
    /\ pending = [r \in Req |-> None]
    /\ outcome = [r \in Req |-> None]

Init ==
    /\ Idle
    /\ norm = NoCall

Goto(r, l) == pc' = [pc EXCEPT ![r] = l]

Count(r, c) == calls' = [calls EXCEPT ![r][c] = @ + 1]

\* temp_audio_path is read for the last time when the job is handed to the
\* provider; the model drops the name once the wait or the try block ends.
Forget(r) == filename' = [filename EXCEPT ![r] = ""]

\* The try block goes on with statement l.
Continue(r, l) ==
    /\ Goto(r, l)
    /\ UNCHANGED <<filename, cause, pending>>

\* An exception e, of cause c, leaves the try block of r: the except clause
\* runs, then control is at the finally block (line 147).
Raise(r, c, e) ==
    /\ pending' = [pending EXCEPT ![r] = ExceptClause(e)]
    /\ cause' = [cause EXCEPT ![r] = c]
    /\ Forget(r)
    /\ Goto(r, "exists")

\* POST /transcribe arrives with some file name.
Receive(r) ==
    /\ pc[r] = "idle"
    /\ \E f \in Filenames : filename' = [filename EXCEPT ![r] = f]
    /\ Goto(r, "makedirs")
    /\ UNCHANGED <<dirExists, files, outFiles, job, elapsed, calls, cause, chosen,
                   answer, pending, outcome>>
    /\ UNCHANGED norm

\* A handler that logs a staging error and carries on with the submission.
StagingSwallowed(r) ==
    /\ cause' = [cause EXCEPT ![r] = "staging"]
    /\ Goto(r, "create_job")
    /\ UNCHANGED <<filename, pending>>

\* Staging raised (lines 61-67): nothing between there and line 141 runs.
StagingFails(r) == Raise(r, "staging", Exception("staging"))

\* line 61: os.makedirs(output_dir, exist_ok=True); may raise OSError
MakeDirs(r) ==
    /\ pc[r] = "makedirs"
    /\ \/ /\ dirExists' = TRUE
          /\ Continue(r, "write")
       \/ /\ StagingFails(r)
          /\ UNCHANGED dirExists
    /\ UNCHANGED <<files, outFiles, job, elapsed, calls, chosen, answer, outcome>>
    /\ UNCHANGED norm

\* lines 63-67: open(temp_audio_path, "wb") and copy the upload into it.
\* Every path runs through temp_processing, so the open fails when that
\* directory is gone; it fails too when the path is the output directory.
\* A write error may strike before or after the file was created.
SaveAudio(r) ==
    LET temp_audio_path == TempAudioPath(filename[r]) IN
    /\ pc[r] = "write"
    /\ IF ~dirExists \/ temp_audio_path = output_dir
       THEN /\ StagingFails(r)
            /\ UNCHANGED files
       ELSE \/ /\ files' = [files EXCEPT ![temp_audio_path] = r]
               /\ Continue(r, "create_job")
            \/ /\ files' = [files EXCEPT ![temp_audio_path] = r]
               /\ StagingFails(r)
            \/ /\ StagingFails(r)
               /\ UNCHANGED files
    /\ UNCHANGED <<dirExists, outFiles, job, elapsed, calls, chosen, answer, outcome>>
    /\ UNCHANGED norm

\* A handler that tries create_job again when it raised.
CreateJobRetried(r) ==
    /\ pc[r] = "create_job"
    /\ Count(r, "create_job")
    /\ \/ /\ job' = [job EXCEPT ![r].state = "created"]
          /\ Continue(r, "upload_files")
       \/ UNCHANGED <<pc, filename, cause, pending, job>>
    /\ UNCHANGED <<dirExists, files, outFiles, elapsed, chosen, answer, outcome>>
    /\ UNCHANGED norm

\* lines 71-73: sarvam_client.speech_to_text_job.create_job(...)
CreateJob(r) ==
    /\ pc[r] = "create_job"
    /\ Count(r, "create_job")
    /\ \/ /\ job' = [job EXCEPT ![r].state = "created"]
          /\ Continue(r, "upload_files")
       \/ /\ Raise(r, "submission", Exception("create_job"))
          /\ UNCHANGED job
    /\ UNCHANGED <<dirExists, files, outFiles, elapsed, chosen, answer, outcome>>
    /\ UNCHANGED norm

\* line 74: job.upload_files(file_paths=[temp_audio_path]) reads the file
UploadFiles(r) ==
    /\ pc[r] = "upload_files"
    /\ Count(r, "upload_files")
    /\ \/ /\ files[TempAudioPath(filename[r])] # NoOne
          /\ job' = [job EXCEPT ![r].state = "submitted"]
          /\ Continue(r, "start")
       \/ /\ Raise(r, "submission", Exception("upload_files"))
          /\ UNCHANGED job
    /\ UNCHANGED <<dirExists, files, outFiles, elapsed, chosen, answer, outcome>>
    /\ UNCHANGED norm

\* A handler that fetches the outputs right after start, without the wait.
StartWithoutWait(r) ==
    /\ pc[r] = "start"
    /\ Count(r, "start")
    /\ job' = [job EXCEPT ![r].state = "running"]
    /\ Continue(r, "download_outputs")
    /\ UNCHANGED <<dirExists, files, outFiles, elapsed, chosen, answer, outcome>>
    /\ UNCHANGED norm

\* line 75: job.start()
Start(r) ==
    /\ pc[r] = "start"
    /\ Count(r, "start")
    /\ \/ /\ job' = [job EXCEPT ![r].state = "running"]
          /\ Continue(r, "wait")
       \/ /\ Raise(r, "submission", Exception("start"))
          /\ UNCHANGED job
    /\ UNCHANGED <<dirExists, files, outFiles, elapsed, chosen, answer, outcome>>
    /\ UNCHANGED norm

\* The wait gives up once more than Timeout has passed without a terminal state.
Expired(t) == t > Timeout

\* wait_until_complete returns: the job is in a terminal state.
Returned(r, state, why) ==
    /\ job' = [job EXCEPT ![r].state = state, ![r].reason = why]
    /\ elapsed' = [elapsed EXCEPT ![r] = 0]
    /\ Goto(r, "is_failed")
    /\ Forget(r)
    /\ UNCHANGED <<cause, pending>>

\* wait_until_complete finds the job still running.
StillRunning(r) ==
    /\ IF Expired(elapsed[r])
       THEN /\ elapsed' = [elapsed EXCEPT ![r] = 0]
            /\ Raise(r, "timeout", Exception("timeout"))
       ELSE /\ elapsed' = [elapsed EXCEPT ![r] = @ + PollStep]
            /\ UNCHANGED <<pc, filename, cause, pending>>
    /\ UNCHANGED job

\* line 77: job.wait_until_complete(timeout=300), one status poll per step.
\* The provider reports a terminal state, or the job is still running: then
\* the wait raises once the timeout has passed and sleeps otherwise.
WaitUntilComplete(r) ==
    /\ pc[r] = "wait"
    /\ \/ Returned(r, "completed", "")
       \/ \E why \in Reasons : Returned(r, "failed", why)
       \/ StillRunning(r)
    /\ UNCHANGED <<dirExists, files, outFiles, calls, chosen, answer, outcome>>
    /\ UNCHANGED norm

\* lines 80-83: if job.is_failed(): reason = job.get_status().get('reason');
\* raise the 502.  Both are status reads of the provider and may raise.
CheckFailed(r) ==
    /\ pc[r] = "is_failed"
    /\ \/ /\ job[r].state = "completed"
          /\ Count(r, "is_failed")
          /\ Continue(r, "download_outputs")
       \/ /\ Count(r, "is_failed")
          /\ Raise(r, "status", Exception("is_failed"))
       \/ /\ job[r].state = "failed"
          /\ calls' = [calls EXCEPT ![r]["is_failed"] = @ + 1, ![r]["get_status"] = @ + 1]
          /\ \/ Raise(r, "provider", ProviderFailure(job[r].reason))
             \/ Raise(r, "status", Exception("get_status"))
    /\ UNCHANGED <<dirExists, files, outFiles, job, elapsed, chosen, answer, outcome>>
    /\ UNCHANGED norm

\* line 86: job.download_outputs(output_dir=output_dir) writes the job's
\* output files (none or one here), named by the provider, into the shared
\* output directory, which the library creates when it is missing.
DownloadOutputs(r) ==
    /\ pc[r] = "download_outputs"
    /\ Count(r, "download_outputs")
    /\ \/ /\ \E n \in OutNames : outFiles' = [outFiles EXCEPT ![n] = r]
          /\ job' = [job EXCEPT ![r].nout = 1]
          /\ dirExists' = TRUE
          /\ Continue(r, "glob")
       \/ /\ Continue(r, "glob")
          /\ UNCHANGED <<dirExists, outFiles, job>>
       \/ /\ Raise(r, "download", Exception("download_outputs"))
          /\ UNCHANGED <<dirExists, outFiles, job>>
    /\ UNCHANGED <<files, elapsed, chosen, answer, outcome>>
    /\ UNCHANGED norm

\* lines 89-92: glob.glob(output_dir/*.json); 404 when nothing matches,
\* else output_files[0], which is any of the matches (glob is unordered).
GlobOutputs(r) ==
    LET output_files == {n \in OutNames : outFiles[n] # NoOne} IN
    /\ pc[r] = "glob"
    /\ IF output_files = {}
       THEN /\ Raise(r, "empty", EmptyOutput)
            /\ UNCHANGED chosen
       ELSE /\ \E n \in output_files : chosen' = [chosen EXCEPT ![r] = n]
            /\ Continue(r, "read")
    /\ UNCHANGED <<dirExists, files, outFiles, job, elapsed, calls, answer, outcome>>
    /\ UNCHANGED norm

\* lines 95-98: open(output_files[0]), json.load, format_diarized_transcript.
\* The transcript is that of the request whose job wrote the file.
ReadTranscript(r) ==
    /\ pc[r] = "read"
    /\ chosen' = [chosen EXCEPT ![r] = ""]
    /\ \/ /\ outFiles[chosen[r]] # NoOne
          /\ pending' = [pending EXCEPT ![r].transcript = outFiles[chosen[r]]]
          /\ Goto(r, "generate")
          /\ UNCHANGED <<filename, cause>>
       \/ Raise(r, "read", Exception("read"))
    /\ UNCHANGED <<dirExists, files, outFiles, job, elapsed, calls, answer, outcome>>
    /\ UNCHANGED norm

\* lines 41 and 131: "\n".join(lines)
RECURSIVE JoinLines(_)
JoinLines(lines) ==
    IF lines = <<>> THEN <<>>
    ELSE IF Len(lines) = 1 THEN lines[1]
    ELSE lines[1] \o <<"\n">> \o JoinLines(Tail(lines))

\* line 128: result_json.get("summary", "Summary could not be generated.")
SummaryOf(result_json) ==
    IF result_json.summary = Absent THEN SummaryPlaceholder ELSE result_json.summary

\* A rendering that joins the items without the "- " prefix.
ActionItemsUnprefixed(result_json) ==
    LET action_items_list ==
            IF result_json.action_items = Absent THEN <<>> ELSE result_json.action_items
    IN  IF action_items_list # <<>>
        THEN JoinLines([i \in 1..Len(action_items_list) |-> <<action_items_list[i]>>])
        ELSE NoItemsSentinel

\* lines 130-131: the items, one "- item" per line, or the sentinel when the
\* list is absent or empty
ActionItemsOf(result_json) ==
    LET action_items_list ==
            IF result_json.action_items = Absent THEN <<>> ELSE result_json.action_items
    IN  IF action_items_list # <<>>
        THEN JoinLines([i \in 1..Len(action_items_list) |-> <<"- ", action_items_list[i]>>])
        ELSE NoItemsSentinel

\* The JSON objects the text-generation provider may answer with.
GenObjects ==
    [kind : {"object"}, summary : {Absent, RealSummary}, action_items : {Absent} \cup ItemLists]

\* The call raised, or its content is not JSON.
GenRaised == [NoAnswer EXCEPT !.kind = "raised"]
GenMalformed == [NoAnswer EXCEPT !.kind = "malformed"]

\* What the try block does with answer a of the provider (lines 115-139):
\* nothing catches a raised call or a json.loads error before line 141.
AfterGeneration(r, a) ==
    IF a.kind = "object"
    THEN /\ pending' = [pending EXCEPT ![r] =
               JSONResponse(pending[r].transcript, SummaryOf(a), ActionItemsOf(a))]
         /\ Goto(r, "exists")
         /\ UNCHANGED <<filename, cause>>
    ELSE Raise(r, "generation", Exception(a.kind))

\* lines 115-139: the chat completion, json.loads of its content, and the
\* response built from it.
Generate(r) ==
    /\ pc[r] = "generate"
    /\ Count(r, "chat_completions")
    /\ \E a \in GenObjects \cup {GenRaised, GenMalformed} :
          /\ answer' = [answer EXCEPT ![r] = a]
          /\ AfterGeneration(r, a)
    /\ UNCHANGED <<dirExists, files, outFiles, job, elapsed, chosen, outcome>>
    /\ UNCHANGED norm

\* The caller receives what the try block left, unless the finally block
\* raised: then that exception replaces the response or the HTTPException.
Deliver(r, raised) ==
    /\ outcome' = [outcome EXCEPT ![r] =
                      IF raised THEN Exception("FileNotFoundError") ELSE pending[r]]
    /\ pending' = [pending EXCEPT ![r] = None]
    /\ Goto(r, "done")

\* line 149: if os.path.exists(temp_dir)
CheckExists(r) ==
    /\ pc[r] = "exists"
    /\ IF dirExists
       THEN /\ Goto(r, "rmtree")
            /\ UNCHANGED <<pending, outcome>>
       ELSE Deliver(r, FALSE)
    /\ UNCHANGED <<filename, dirExists, files, outFiles, job, elapsed, calls,
                   cause, chosen, answer>>
    /\ UNCHANGED norm

\* shutil.rmtree(temp_dir): the directory and all below it are gone
Removed ==
    /\ dirExists' = FALSE
    /\ files' = [p \in FilePaths |-> IF p \in InTempDir THEN NoOne ELSE files[p]]
    /\ outFiles' = [n \in OutNames |-> NoOne]

\* line 150: shutil.rmtree(temp_dir); it raises FileNotFoundError when the
\* directory is no longer there.
RmTree(r) ==
    /\ pc[r] = "rmtree"
    /\ IF dirExists
       THEN /\ Removed
            /\ Deliver(r, FALSE)
       ELSE /\ Deliver(r, TRUE)
            /\ UNCHANGED <<dirExists, files, outFiles>>
    /\ UNCHANGED <<filename, job, elapsed, calls, cause, chosen, answer>>
    /\ UNCHANGED norm

\* ---------------------------------------------------------------------
\* The same handler run by the requests that are not followed: only what
\* their steps do to the shared directory is kept.

\* line 61 in another request
OtherMakeDirs ==
    /\ ~dirExists
    /\ dirExists' = TRUE
    /\ UNCHANGED <<pc, filename, files, outFiles, job, elapsed, calls, cause,
                   chosen, answer, pending, outcome>>
    /\ UNCHANGED norm

\* lines 63-67 in another request
OtherSaveAudio ==
    /\ dirExists
    /\ \E f \in Filenames :
          /\ TempAudioPath(f) # output_dir
          /\ files[TempAudioPath(f)] # Other
          /\ files' = [files EXCEPT ![TempAudioPath(f)] = Other]
    /\ UNCHANGED <<pc, filename, dirExists, outFiles, job, elapsed, calls, cause,
                   chosen, answer, pending, outcome>>
    /\ UNCHANGED norm

\* line 86 in another request
OtherDownloadOutputs ==
    /\ \E n \in OutNames :
          /\ ~dirExists \/ outFiles[n] # Other
          /\ outFiles' = [outFiles EXCEPT ![n] = Other]
    /\ dirExists' = TRUE
    /\ UNCHANGED <<pc, filename, files, job, elapsed, calls, cause, chosen,
                   answer, pending, outcome>>
    /\ UNCHANGED norm

\* line 150 in another request
OtherRmTree ==
    /\ dirExists
    /\ Removed
    /\ UNCHANGED <<pc, filename, job, elapsed, calls, cause, chosen, answer,
                   pending, outcome>>
    /\ UNCHANGED norm

OtherRequests ==
    \/ OtherMakeDirs
    \/ OtherSaveAudio
    \/ OtherDownloadOutputs
    \/ OtherRmTree

Next ==
    \/ \E r \in Req :
        \/ Receive(r)
        \/ MakeDirs(r)
        \/ SaveAudio(r)
        \/ CreateJob(r)
        \/ UploadFiles(r)
        \/ Start(r)
        \/ WaitUntilComplete(r)
        \/ CheckFailed(r)
        \/ DownloadOutputs(r)
        \/ GlobOutputs(r)
        \/ ReadTranscript(r)
        \/ Generate(r)
        \/ CheckExists(r)
        \/ RmTree(r)
    \/ OtherRequests

Spec == Init /\ [][Next]_vars

\* ---------------------------------------------------------------------
\* format_diarized_transcript (lines 29-43), applied to every parsed
\* output the bounded sets above hold.
LowerLetters == <<"a", "b", "c", "d", "e", "f", "g", "h", "i", "j", "k", "l", "m",
                  "n", "o", "p", "q", "r", "s", "t", "u", "v", "w", "x", "y", "z">>
UpperLetters == <<"A", "B", "C", "D", "E", "F", "G", "H", "I", "J", "K", "L", "M",
                  "N", "O", "P", "Q", "R", "S", "T", "U", "V", "W", "X", "Y", "Z">>
Whitespace == {" ", "\n", "\t", "\r"}

IsLower(c) == \E i \in DOMAIN LowerLetters : LowerLetters[i] = c
IsUpper(c) == \E i \in DOMAIN UpperLetters : UpperLetters[i] = c
IsCased(c) == IsLower(c) \/ IsUpper(c)

Upper(c) ==
    IF IsLower(c) THEN UpperLetters[CHOOSE i \in DOMAIN LowerLetters : LowerLetters[i] = c]
    ELSE c

Lower(c) ==
    IF IsUpper(c) THEN LowerLetters[CHOOSE i \in DOMAIN UpperLetters : UpperLetters[i] = c]
    ELSE c

\* str.replace(old, new) for single characters
Replace(s, old, new) == [i \in 1..Len(s) |-> IF s[i] = old THEN new ELSE s[i]]

\* str.title(): a cased character is lowered behind a cased character and
\* raised anywhere else
Title(s) ==
    [i \in 1..Len(s) |-> IF i > 1 /\ IsCased(s[i - 1]) THEN Lower(s[i]) ELSE Upper(s[i])]

\* line 41: str.strip()
RECURSIVE Strip(_)
Strip(s) ==
    IF s = <<>> THEN s
    ELSE IF Head(s) \in Whitespace THEN Strip(Tail(s))
    ELSE IF s[Len(s)] \in Whitespace THEN Strip(SubSeq(s, 1, Len(s) - 1))
    ELSE s

UnknownSpeaker ==
    <<"U", "n", "k", "n", "o", "w", "n", " ", "S", "p", "e", "a", "k", "e", "r">>
NoContentFound ==
    <<"N", "o", " ", "c", "o", "n", "t", "e", "n", "t", " ", "f", "o", "u", "n", "d", ".">>

\* line 31: sarvam_result.get("diarized_transcript", {}).get("entries", [])
EntriesOf(sarvam_result) ==
    IF sarvam_result.diarized_transcript.given = "entries"
    THEN sarvam_result.diarized_transcript.entries
    ELSE <<>>

\* line 33: sarvam_result.get("transcript", "No content found.")
FlatTranscript(sarvam_result) ==
    IF sarvam_result.transcript = Absent THEN NoContentFound ELSE sarvam_result.transcript

\* lines 37-39: **Speaker:** text
FormattedLine(entry) ==
    LET speaker == Title(Replace(IF entry.speaker_id = Absent THEN UnknownSpeaker
                                 ELSE entry.speaker_id, "_", " "))
        text == IF entry.transcript = Absent THEN <<>> ELSE entry.transcript
    IN  <<"*", "*">> \o speaker \o <<":", "*", "*", " ">> \o text

format_diarized_transcript(sarvam_result) ==
    LET entries == EntriesOf(sarvam_result)
    IN  IF entries = <<>> THEN FlatTranscript(sarvam_result)
        ELSE Strip(JoinLines([i \in 1..Len(entries) |-> FormattedLine(entries[i])]))

handler == <<pc, filename, dirExists, files, outFiles, job, elapsed, calls, cause,
             chosen, answer, pending, outcome>>

NormalizerInit ==
    /\ Idle
    /\ \E sarvam_result \in SarvamResults : norm = [NoCall EXCEPT !.sarvam_result = sarvam_result]

Normalized ==
    /\ ~norm.done
    /\ norm' = [norm EXCEPT !.returned = format_diarized_transcript(norm.sarvam_result),
                            !.done = TRUE]
    /\ UNCHANGED handler

\* lines 32-33: no entries
NormalizeFlat ==
    /\ EntriesOf(norm.sarvam_result) = <<>>
    /\ Normalized

\* lines 35-43: one line per entry
NormalizeDiarized ==
    /\ EntriesOf(norm.sarvam_result) # <<>>
    /\ Normalized

NormalizerNext == NormalizeFlat \/ NormalizeDiarized

NormalizerSpec == NormalizerInit /\ [][NormalizerNext]_vars

\* ---------------------------------------------------------------------
\* Properties

Exits == {"exists", "rmtree", "done"}

Ended(r) == pc[r] = "done"

\* r has staged its audio and its job has not yet reached a terminal state.
InFlight(r) == pc[r] \in {"create_job", "upload_files", "start", "wait"}

\* What the run of r has produced so far: the caller's view once it ended.
Result(r) == IF Ended(r) THEN outcome[r] ELSE pending[r]

\* The status the caller sees; the server answers an exception that is not
\* an HTTPException with 500.
DeliveredStatus(o) == IF o.kind = "exception" THEN StatusUnexpected ELSE o.status

NoCalls(r, cs) == \A c \in cs : calls[r][c] = 0

\* C1: once a run has ended, on whatever exit path, no file holds the audio
\* that the request staged.
C1_ArtifactAbsentAfterRun ==
    \A r \in Req : Ended(r) => \A p \in FilePaths : files[p] # r

\* C2: from the moment a request has written its staged audio until its job
\* is terminal, the staged file is there, whatever other requests do.
C2_ArtifactKeptWhileJobRuns ==
    \A r \in Req : InFlight(r) => files[TempAudioPath(filename[r])] # NoOne

\* C3: no other running request writes its staged audio to the path of r:
\* while r is in flight its path never holds another request's bytes.
C3_NoSharedStagingPath ==
    \A r \in Req : InFlight(r) => files[TempAudioPath(filename[r])] \in {r, NoOne}

\* C4: a request that ended delivered a success payload or one HTTP error
\* with a status code, and a success only after its job completed and the
\* output was downloaded and read.
C4_SuccessOrStructuredError ==
    \A r \in Req : Ended(r) =>
        /\ outcome[r].kind \in {"success", "http"}
        /\ outcome[r].kind = "success" =>
              /\ job[r].state = "completed"
              /\ calls[r]["download_outputs"] = 1
              /\ outcome[r].transcript # NoOne

\* C5: when the generation call raised or answered with text that is not
\* JSON, the request still produces a success response holding the
\* transcript and the placeholders for summary and action_items.
C5_GenerationFailureDegrades ==
    \A r \in Req :
        (pc[r] \in Exits /\ answer[r].kind \in {"raised", "malformed"}) =>
            /\ Result(r).kind = "success"
            /\ Result(r).transcript # NoOne
            /\ Result(r).summary = SummaryPlaceholder
            /\ Result(r).action_items = NoItemsSentinel

\* C6: an answer without action_items gives the real summary and the
\* sentinel, an answer without summary gives the summary placeholder and the
\* rendered items, and the request succeeds in both cases.
C6_MissingFieldDegradesAlone ==
    \A r \in Req : (Ended(r) /\ answer[r].kind = "object") =>
        /\ (answer[r].summary = RealSummary /\ answer[r].action_items = Absent) =>
              /\ outcome[r].kind = "success"
              /\ outcome[r].summary = RealSummary
              /\ outcome[r].action_items = NoItemsSentinel
        /\ (answer[r].summary = Absent /\ answer[r].action_items = <<"call Bob", "send notes">>) =>
              /\ outcome[r].kind = "success"
              /\ outcome[r].summary = SummaryPlaceholder
              /\ outcome[r].action_items = <<"- ", "call Bob", "\n", "- ", "send notes">>

\* C7: when the job failed with reason w and the handler learnt it, the
\* request ends with the 502 that carries w, and neither download_outputs
\* nor the text generation was called.
C7_ProviderFailureIs502 ==
    \A r \in Req : (Ended(r) /\ cause[r] = "provider") =>
        /\ outcome[r].kind = "http"
        /\ outcome[r].status = StatusProviderFailure
        /\ outcome[r].detail = <<"Sarvam job failed: ", job[r].reason>>
        /\ NoCalls(r, {"download_outputs", "chat_completions"})

\* C8: when the wait timed out, the request fails with the error that names
\* the timeout, and no status read and no download follows the timeout.
C8_TimeoutFailsAndStops ==
    \A r \in Req : cause[r] = "timeout" =>
        /\ pc[r] \in Exits
        /\ NoCalls(r, {"is_failed", "get_status", "download_outputs", "chat_completions"})
        /\ Result(r).kind = "http"
        /\ Result(r).detail = <<"An unexpected error occurred: ", "timeout">>

\* C9: the status of a failed request is 502 exactly when the provider
\* reported the job failed, 404 exactly when the job completed with no
\* output file, and 500 for every other failure.
C9_StatusReflectsFailureClass ==
    \A r \in Req : Ended(r) =>
        LET status == DeliveredStatus(outcome[r])
            reportedFailed == cause[r] = "provider"
            noOutput == /\ job[r].state = "completed"
                        /\ calls[r]["download_outputs"] = 1
                        /\ cause[r] # "download"
                        /\ job[r].nout = 0
        IN  /\ reportedFailed <=> status = StatusProviderFailure
            /\ noOutput <=> status = StatusEmptyOutput
            /\ (cause[r] # "" /\ ~reportedFailed /\ ~noOutput) => status = StatusUnexpected

\* C10: when staging failed (makedirs or the write of the audio raised), the
\* request ends in a failure and has made no call to the transcription
\* provider and none to the text-generation provider.
C10_StagingFailureMakesNoCalls ==
    \A r \in Req : cause[r] = "staging" =>
        /\ pc[r] \in Exits
        /\ NoCalls(r, Calls)
        /\ job[r] = NoJob
        /\ Result(r).kind # "success"
        /\ DeliveredStatus(Result(r)) = StatusUnexpected

C10_Witness ==
    \E r \in Req :
        /\ Ended(r)
        /\ cause[r] = "staging"
        /\ outcome[r].kind = "http"
        /\ \E p \in FilePaths : files[p] = r

Terminal == {"completed", "failed"}

\* C11: within a request, create_job, upload_files and start have all been
\* made before the wait polls; the outputs are fetched only after a poll saw
\* the job completed; the text generation is called only after the
\* transcript was read and normalized.
C11_StepsInOrder ==
    \A r \in Req :
        /\ calls[r]["upload_files"] > 0 => (calls[r]["create_job"] = 1 /\ job[r].state # "none")
        /\ calls[r]["start"] > 0 => calls[r]["upload_files"] = 1
        /\ (pc[r] = "wait" \/ job[r].state \in Terminal \cup {"running"}) =>
              /\ calls[r]["create_job"] = 1
              /\ calls[r]["upload_files"] = 1
              /\ calls[r]["start"] = 1
        /\ pc[r] = "wait" => job[r].state = "running"
        /\ calls[r]["is_failed"] > 0 => job[r].state \in Terminal
        /\ (pc[r] = "download_outputs" \/ calls[r]["download_outputs"] > 0) =>
              /\ job[r].state = "completed"
              /\ calls[r]["is_failed"] = 1
        /\ pc[r] = "generate" =>
              /\ pending[r].transcript # NoOne
              /\ calls[r]["download_outputs"] = 1
              /\ calls[r]["chat_completions"] = 0
        /\ calls[r]["chat_completions"] > 0 =>
              /\ pc[r] \in Exits
              /\ calls[r]["download_outputs"] = 1
              /\ answer[r] # NoAnswer

C11_Witness ==
    \E r \in Req :
        /\ Ended(r)
        /\ outcome[r].kind = "success"
        /\ \A c \in Calls \ {"get_status"} : calls[r][c] = 1

\* C12: create_job, upload_files and start are each made at most once per
\* request; once the submission raised, or the provider reported the job
\* failed, the request is on its way out with a failure and has made no
\* further call to the transcription provider.
C12_NothingRetried ==
    \A r \in Req :
        /\ \A c \in {"create_job", "upload_files", "start"} : calls[r][c] <= 1
        /\ cause[r] = "submission" =>
              /\ pc[r] \in Exits
              /\ calls[r]["create_job"] = 1
              /\ calls[r]["start"] = 1 => calls[r]["upload_files"] = 1
              /\ job[r].state \in {"none", "created", "submitted"}
              /\ NoCalls(r, {"is_failed", "get_status", "download_outputs", "chat_completions"})
              /\ Result(r).kind # "success"
        /\ cause[r] = "provider" =>
              /\ pc[r] \in Exits
              /\ \A c \in {"create_job", "upload_files", "start", "is_failed", "get_status"} :
                    calls[r][c] = 1
              /\ NoCalls(r, {"download_outputs", "chat_completions"})
              /\ Result(r).kind # "success"

C12_Witness ==
    \E r \in Req :
        /\ Ended(r)
        /\ cause[r] = "submission"
        /\ calls[r]["upload_files"] = 1
        /\ calls[r]["start"] = 0

\* The first n items, each on a line of its own behind "- ".
RECURSIVE Bulleted(_, _)
Bulleted(items, n) ==
    IF n = 1 THEN <<"- ", items[1]>>
    ELSE Bulleted(items, n - 1) \o <<"\n", "- ", items[n]>>

\* C16: in every success response action_items is the returned items in
\* their order, one per line, each behind "- ", with a newline between
\* lines; with no items it is exactly the sentinel.
C16_ActionItemsRendered ==
    \A r \in Req :
        Result(r).kind = "success" =>
            LET items == answer[r].action_items
            IN  /\ answer[r].kind = "object"
                /\ Result(r).action_items =
                      IF items \in {Absent, <<>>} THEN <<"No action items were identified.">>
                      ELSE Bulleted(items, Len(items))

C16_Witness ==
    \E r \in Req :
        /\ Ended(r)
        /\ outcome[r].kind = "success"
        /\ Len(answer[r].action_items) > 1
        /\ outcome[r].action_items = <<"- ", "call Bob", "\n", "- ", "send notes">>

\* C17: the transcript a request returns was read from the output file of
\* its own job, and a request whose job produced output never reports empty
\* output.
C17_OwnOutputOnly ==
    \A r \in Req :
        /\ Result(r).kind = "success" => Result(r).transcript = r
        /\ cause[r] = "empty" => job[r].nout = 0

\* C18: the cleanup never raises, so the request ends with exactly what the
\* try block produced: the success response, the 502 of a failed job, the
\* 404 of empty output.
C18_CleanupKeepsOutcome ==
    \A r \in Req :
        Ended(r) =>
            /\ outcome[r].kind # "exception"
            /\ cause[r] = "" => outcome[r].kind = "success"
            /\ cause[r] = "provider" =>
                  (outcome[r].kind = "http" /\ outcome[r].status = StatusProviderFailure)
            /\ cause[r] = "empty" =>
                  (outcome[r].kind = "http" /\ outcome[r].status = StatusEmptyOutput)

\* C19: whatever filename the client sent, the audio a request staged lies
\* inside the temporary directory, and nothing of it is left once the
\* request has ended.
C19_StagedInsideTempDir ==
    \A r \in Req :
        /\ \A p \in FilePaths : files[p] = r => p \in InTempDir
        /\ Ended(r) => \A p \in FilePaths \ InTempDir : files[p] # r

\* The lines of a string: what lies between its newlines.
RECURSIVE SplitLines(_)
SplitLines(s) ==
    IF \A i \in 1..Len(s) : s[i] # "\n" THEN <<s>>
    ELSE LET k == CHOOSE i \in 1..Len(s) : s[i] = "\n" /\ \A j \in 1..(i - 1) : s[j] # "\n"
         IN  <<SubSeq(s, 1, k - 1)>> \o SplitLines(SubSeq(s, k + 1, Len(s)))

\* C13: for a nonempty list of entries, each with a speaker id and a text,
\* the normalizer returns as many lines as entries, in their order, line i
\* being "<label>: <text>" with the label the speaker id, underscores
\* turned to spaces, title-cased.
C13_OneLinePerEntry ==
    LET entries == EntriesOf(norm.sarvam_result)
        lines == SplitLines(norm.returned)
    IN  (/\ norm.done
         /\ entries # <<>>
         /\ \A i \in 1..Len(entries) :
               entries[i].speaker_id # Absent /\ entries[i].transcript # Absent)
        => /\ Len(lines) = Len(entries)
           /\ \A i \in 1..Len(entries) :
                 lines[i] = Title(Replace(entries[i].speaker_id, "_", " "))
                               \o <<":", " ">> \o entries[i].transcript

\* C14: with no entries and a flat text that is missing or empty the
\* normalizer returns the placeholder.
C14_PlaceholderWhenEmpty ==
    (/\ norm.done
     /\ EntriesOf(norm.sarvam_result) = <<>>
     /\ norm.sarvam_result.transcript \in {Absent, <<>>})
    => norm.returned = NoContentFound

\* C15: with no entries and a nonempty flat text the normalizer returns the
\* flat text without its leading and trailing whitespace.
C15_FlatTextTrimmed ==
    (/\ norm.done
     /\ EntriesOf(norm.sarvam_result) = <<>>
     /\ norm.sarvam_result.transcript \notin {Absent, <<>>})
    => norm.returned = Strip(norm.sarvam_result.transcript)
====
